---- MODULE Spec2Model ----
(***************************************************************************)
(* Casa Rubia: the reservation server (src/server.js) and the rooms page   *)
(* of the browser client (src/script.js).                                  *)
(*                                                                         *)
(* Texts (JavaScript strings, SQLite TEXT values) are sequences of         *)
(* character codes, so that the store's comparison of TEXT values is the   *)
(* byte-wise comparison SQLite performs and the two date formats in use    *)
(* (the date-only value of a date field, the ISO timestamp of              *)
(* Date.toISOString) are different texts.                                  *)
(***************************************************************************)
EXTENDS Integers, Sequences, FiniteSets, TLC

\* Days of the month the date fields and the API callers choose from.
MaxDay == 3
\* Capacity of the reservations table in a run.
MaxRes == 2
\* Requests of the browser that may be in flight at once.
MaxInflight == 2
\* Actions of the user on the rooms page in a run.
MaxEvents == 3
\* The catalog has twelve rooms, with ids 1 to 12.
NumRooms == 12
\* The id of the room the runs book: the first room of the catalog.
FirstRoom == 1

Days == 1..MaxDay
rooms == 1..NumRooms

----------------------------------------------------------------------------
(* Texts *)

Empty == << >>
\* "a": a non-empty name, email or phone.
SomeText == <<97>>
\* " ": a text of white space only.
Blank == <<32>>

\* "2024-06-": the month the days are taken from.
MonthPrefix == <<50, 48, 50, 52, 45, 48, 54, 45>>
\* "T00:00:00.000Z"
MidnightSuffix == <<84, 48, 48, 58, 48, 48, 58, 48, 48, 46, 48, 48, 48, 90>>

\* The value of a date field holding day d: "2024-06-dd".
DateOnly(d) == MonthPrefix \o <<48 + (d \div 10), 48 + (d % 10)>>

\* A Date object: its time value in days, or NaN (Invalid Date).
InvalidDate == [nan |-> TRUE, time |-> 0]
ValidDate(d) == [nan |-> FALSE, time |-> d]

\* new Date(value) for the value of a date field: a date-only text is UTC
\* midnight of that day, anything else here is an Invalid Date.
NewDate(value) ==
  IF \E d \in 1..31 : DateOnly(d) = value
    THEN ValidDate(CHOOSE d \in 1..31 : DateOnly(d) = value)
    ELSE InvalidDate

\* isNaN(date)
IsNaN(date) == date.nan

\* date1 <= date2 on Date objects: false when either is NaN.
DateLeq(x, y) == ~x.nan /\ ~y.nan /\ x.time <= y.time

\* date.toISOString(): "2024-06-ddT00:00:00.000Z".
ToISOString(date) ==
  MonthPrefix \o <<48 + (date.time \div 10), 48 + (date.time % 10)>> \o MidnightSuffix

\* String.prototype.trim on the texts used here.
RECURSIVE TrimLeft(_)
TrimLeft(s) == IF s # Empty /\ Head(s) = 32 THEN TrimLeft(Tail(s)) ELSE s
RECURSIVE TrimRight(_)
TrimRight(s) ==
  IF s # Empty /\ s[Len(s)] = 32 THEN TrimRight(SubSeq(s, 1, Len(s) - 1)) ELSE s
Trim(s) == TrimRight(TrimLeft(s))

\* s <= t as SQLite compares two TEXT values (BINARY collation: memcmp, then
\* the shorter text first).
TextLeq(s, t) ==
  LET n == IF Len(s) < Len(t) THEN Len(s) ELSE Len(t)
      diff == {i \in 1..n : s[i] # t[i]}
  IN IF diff = {}
       THEN Len(s) <= Len(t)
       ELSE LET i == CHOOSE k \in diff : \A j \in diff : k <= j
            IN s[i] < t[i]

\* s >= t in the same order.
TextGeq(s, t) == TextLeq(t, s)

\* JavaScript truthiness of a text field: undefined and "" are falsy.
Truthy(v) == v # Empty
\* JavaScript truthiness of a number field: undefined and 0 are falsy.
TruthyNum(n) == n # 0

----------------------------------------------------------------------------
(* The server: src/server.js *)

VARIABLES
  store,          \* the rows of table reservations, in id order
  seq,            \* sqlite_sequence of the table: the largest id ever assigned
  resp,           \* the response an API caller holds, with its request
  checkInInput,   \* value of the date field checkIn of the rooms page
  checkOutInput,  \* value of the date field checkOut
  avail,          \* the availability cell of each room's row
  modalShown,     \* whether the reservation modal has class "show"
  form,           \* formRoomId, formCheckIn and formCheckOut of the modal
  alerted,        \* the alert the last handler of the page raised, or ""
  events,         \* how many actions the user has taken on the page
  net             \* the fetches of the page that have not settled

server == <<store, seq>>
browser == <<checkInInput, checkOutInput, avail, modalShown, form, alerted, events, net>>
vars == <<store, seq, resp, checkInInput, checkOutInput, avail, modalShown, form,
          alerted, events, net>>

NoResp == [op |-> "none"]

\* The clause with < for <= and > for >=: closed intervals.
WhereOverlapClosed(r, a, b) ==
  ~((TextLeq(r.checkOut, a) /\ r.checkOut # a) \/ (TextGeq(r.checkIn, b) /\ r.checkIn # b))

\* WHERE NOT (checkOut <= ? OR checkIn >= ?) on one row.
WhereOverlap(r, a, b) == ~(TextLeq(r.checkOut, a) \/ TextGeq(r.checkIn, b))

\* The condition under which the handler adds the WHERE clause.
HasRange(query) == Truthy(query.checkIn) /\ Truthy(query.checkOut)

\* SELECT * FROM reservations [WHERE ...]: the rows the statement yields.
SelectReservations(table, query) ==
  IF HasRange(query)
    THEN LET Test(r) == WhereOverlap(r, query.checkIn, query.checkOut)
         IN SelectSeq(table, Test)
    ELSE table

\* app.get('/api/reservations'): the response, given whether db.all fails.
GetReservations(table, query, dbErr) ==
  IF dbErr
    THEN [status |-> 500, error |-> "Database error", rows |-> << >>]
    ELSE [status |-> 200, error |-> "", rows |-> SelectReservations(table, query)]

\* The check with email left out.
IncompleteNoEmail(body) ==
  \/ ~TruthyNum(body.roomId) \/ ~Truthy(body.name)
  \/ ~Truthy(body.phone) \/ ~Truthy(body.checkIn) \/ ~Truthy(body.checkOut)

\* The check of the required fields of a POST body.
Incomplete(body) ==
  \/ ~TruthyNum(body.roomId) \/ ~Truthy(body.name) \/ ~Truthy(body.email)
  \/ ~Truthy(body.phone) \/ ~Truthy(body.checkIn) \/ ~Truthy(body.checkOut)

\* An id that repeats the largest one after the first row.
NextIdRepeated(table, sq) ==
  LET ids == {table[i].id : i \in 1..Len(table)} \cup {sq}
      largest == CHOOSE m \in ids : \A k \in ids : k <= m
  IN IF largest = 0 THEN 1 ELSE largest

\* The id an AUTOINCREMENT primary key gives the next row.
NextId(table, sq) ==
  LET ids == {table[i].id : i \in 1..Len(table)} \cup {sq}
  IN 1 + CHOOSE m \in ids : \A k \in ids : k <= m

\* The row INSERT INTO reservations adds.
NewRow(table, sq, body) ==
  [id |-> NextId(table, sq), roomId |-> body.roomId, name |-> body.name,
   email |-> body.email, phone |-> body.phone,
   checkIn |-> body.checkIn, checkOut |-> body.checkOut]

\* The handler with a conflict check before the insert: 409 when a stored
\* reservation of the room overlaps the new one.
PostReservationsChecked(table, sq, body, dbErr) ==
  IF Incomplete(body)
    THEN [status |-> 400, error |-> "Datos incompletos", id |-> 0,
          store |-> table, seq |-> sq]
    ELSE IF \E j \in 1..Len(table) :
              /\ table[j].roomId = body.roomId
              /\ WhereOverlap(table[j], body.checkIn, body.checkOut)
      THEN [status |-> 409, error |-> "Conflict", id |-> 0,
            store |-> table, seq |-> sq]
      ELSE IF dbErr
        THEN [status |-> 500, error |-> "Error al guardar la reserva", id |-> 0,
              store |-> table, seq |-> sq]
        ELSE LET row == NewRow(table, sq, body)
             IN [status |-> 200, error |-> "", id |-> row.id,
                 store |-> Append(table, row), seq |-> row.id]

\* app.post('/api/reservations'): the response and the table afterwards,
\* given whether stmt.run fails.
PostReservations(table, sq, body, dbErr) ==
  IF Incomplete(body)
    THEN [status |-> 400, error |-> "Datos incompletos", id |-> 0,
          store |-> table, seq |-> sq]
    ELSE IF dbErr
      THEN [status |-> 500, error |-> "Error al guardar la reserva", id |-> 0,
            store |-> table, seq |-> sq]
      ELSE LET row == NewRow(table, sq, body)
           IN [status |-> 200, error |-> "", id |-> row.id,
               store |-> Append(table, row), seq |-> row.id]

----------------------------------------------------------------------------
(* Requests of an arbitrary HTTP client to the API *)

\* Values of the checkIn and checkOut query parameters: absent, a date-only
\* text or an ISO timestamp.
QueryTexts ==
  {Empty} \cup {DateOnly(d) : d \in Days} \cup {ToISOString(ValidDate(d)) : d \in Days}

Queries == [checkIn : QueryTexts, checkOut : QueryTexts]

\* Values of the fields of a POST body: roomId missing or the first room,
\* texts empty or not, dates missing or the date-only value of a date field.
Texts == {Empty, SomeText}
BodyDates == {Empty} \cup {DateOnly(d) : d \in Days}

AllBodies == [roomId : {0, FirstRoom}, name : Texts, email : Texts, phone : Texts,
              checkIn : BodyDates, checkOut : BodyDates]

\* The required fields a body lacks.
MissingFields(body) ==
  {f \in {"name", "email", "phone", "checkIn", "checkOut"} : body[f] = Empty}
    \cup (IF body.roomId = 0 THEN {"roomId"} ELSE {})

\* The bodies sent: complete, lacking one field, or lacking all of them.
Bodies ==
  {b \in AllBodies : Cardinality(MissingFields(b)) <= 1 \/ Cardinality(MissingFields(b)) = 6}

NoBody == [roomId |-> 0, name |-> Empty, email |-> Empty, phone |-> Empty,
           checkIn |-> Empty, checkOut |-> Empty]
NoQuery == [checkIn |-> Empty, checkOut |-> Empty]

\* The caller sends GET /api/reservations?checkIn=..&checkOut=.. and gets
\* the response; resp keeps the request beside it.
ApiGet(query) ==
  /\ resp = NoResp
  /\ \E dbErr \in BOOLEAN :
       LET r == GetReservations(store, query, dbErr)
       IN resp' = [op |-> "GET", status |-> r.status, error |-> r.error,
                   rows |-> r.rows, id |-> 0, query |-> query, body |-> NoBody]
  /\ UNCHANGED <<store, seq>>
  /\ UNCHANGED browser

\* The caller sends POST /api/reservations with a JSON body.
ApiPost(body) ==
  /\ resp = NoResp
  /\ IF Incomplete(body) THEN TRUE ELSE Len(store) < MaxRes
  /\ \E dbErr \in (IF Incomplete(body) THEN {FALSE} ELSE BOOLEAN) :
       LET r == PostReservations(store, seq, body, dbErr)
       IN /\ resp' = [op |-> "POST", status |-> r.status, error |-> r.error,
                      rows |-> << >>, id |-> r.id, query |-> NoQuery, body |-> body]
          /\ store' = r.store
          /\ seq' = r.seq
  /\ UNCHANGED browser

\* The caller has read the response and may send its next request.
ApiDone ==
  /\ resp # NoResp
  /\ resp' = NoResp
  /\ UNCHANGED <<store, seq>>
  /\ UNCHANGED browser


----------------------------------------------------------------------------
(* The fetches of the rooms page and the routes of the server *)

\* A fetch that has been sent and not yet answered.
Request(method, path, query, body) ==
  [phase |-> "request", method |-> method, path |-> path, query |-> query,
   body |-> body, status |-> 0, payload |-> "", rows |-> << >>, id |-> 0]

\* The answer on its way back, for the URL that was fetched: the payload is a JSON array (the rows), a JSON
\* object ({id} or {error}) or the HTML page of a request no route matches.
Response(m, status, payload, rows, id) ==
  [phase |-> "response", method |-> m.method, path |-> m.path, query |-> m.query,
   body |-> NoBody, status |-> status, payload |-> payload, rows |-> rows,
   id |-> id]

\* The route of the server a request matches, if any.
Route(method, path) ==
  IF method = "GET" /\ path = "/api/rooms" THEN "rooms"
  ELSE IF method = "GET" /\ path = "/api/reservations" THEN "list"
  ELSE IF method = "POST" /\ path = "/api/reservations" THEN "create"
  ELSE "none"

\* The path the page fetches the availability from, and the one it posts to.
AvailabilityPath == "/"
ReservationsPath == "/api/reservations"

RemoveAt(q, i) == SubSeq(q, 1, i - 1) \o SubSeq(q, i + 1, Len(q))

\* The server answers the request net[i].
ServerHandle(i) ==
  /\ net[i].phase = "request"
  /\ LET m == net[i]
         route == Route(m.method, m.path)
     IN /\ route = "create" /\ ~Incomplete(m.body) => Len(store) < MaxRes
        /\ \E dbErr \in (IF route \in {"list", "create"} THEN BOOLEAN ELSE {FALSE}) :
             CASE route = "list" ->
                    LET r == GetReservations(store, m.query, dbErr)
                    IN /\ net' = [net EXCEPT ![i] =
                                    Response(m, r.status,
                                             IF r.status = 200 THEN "array" ELSE "object",
                                             r.rows, 0)]
                       /\ UNCHANGED server
               [] route = "create" ->
                    LET r == PostReservations(store, seq, m.body, dbErr)
                    IN /\ net' = [net EXCEPT ![i] =
                                    Response(m, r.status, "object", << >>, r.id)]
                       /\ store' = r.store
                       /\ seq' = r.seq
               [] route = "rooms" ->
                    \* res.json(rooms): an array, of rooms and not of reservations
                    /\ net' = [net EXCEPT ![i] =
                                 Response(m, 200, "array", << >>, 0)]
                    /\ UNCHANGED server
               [] OTHER ->
                    /\ net' = [net EXCEPT ![i] =
                                 Response(m, 404, "html", << >>, 0)]
                    /\ UNCHANGED server
  /\ UNCHANGED <<resp, checkInInput, checkOutInput, avail, modalShown, form, alerted, events>>

----------------------------------------------------------------------------
(* The rooms page: src/script.js, initRoomsPage *)

EmptyCell == [text |-> "", class |-> "availability"]
InvalidCell == [text |-> "Fechas no validas", class |-> "availability unavailable"]
ErrorCell == [text |-> "Error", class |-> "availability unavailable"]
AvailableCell == [text |-> "Disponible", class |-> "availability available"]
UnavailableCell == [text |-> "No disponible", class |-> "availability unavailable"]

AlertDates == "Por favor seleccione una fecha de entrada y salida valida antes de reservar."
AlertFields == "Por favor complete todos los campos del formulario."
AlertThanks == "Gracias! Su solicitud de reserva ha sido registrada."
AlertFailed == "Lo sentimos, ocurrio un error al registrar la reserva."

NoForm == [roomId |-> 0, checkIn |-> Empty, checkOut |-> Empty]

\* The cells after a successful query: a room is unavailable when some
\* returned reservation has its id.
PaintRooms(reservations) ==
  [room \in rooms |->
     IF \E k \in 1..Len(reservations) : reservations[k].roomId = room
       THEN UnavailableCell ELSE AvailableCell]

\* updateAvailability up to its await: the cells and the fetches afterwards.
UpdateAvailability(ci, co, cells, fetches) ==
  LET checkInDate == NewDate(ci)
      checkOutDate == NewDate(co)
  IN IF IsNaN(checkInDate) \/ IsNaN(checkOutDate)
       THEN [avail |-> cells, net |-> fetches]
       ELSE IF DateLeq(checkOutDate, checkInDate)
         THEN [avail |-> [room \in rooms |-> InvalidCell], net |-> fetches]
         ELSE [avail |-> cells,
               net |-> Append(fetches,
                              Request("GET", AvailabilityPath,
                                      [checkIn |-> ToISOString(checkInDate),
                                       checkOut |-> ToISOString(checkOutDate)],
                                      NoBody))]

\* Values a date field can hold: empty or a day.
FieldValues == {Empty} \cup {DateOnly(d) : d \in Days}

\* What the user types into name, email or phone.
TypedTexts == {Empty, Blank, Blank \o SomeText \o Blank}

\* The user changes the check-in date: the change listener runs updateAvailability.
ChangeCheckIn(value) ==
  /\ value # checkInInput
  /\ events < MaxEvents
  /\ events' = events + 1
  /\ LET u == UpdateAvailability(value, checkOutInput, avail, net)
     IN /\ Len(u.net) <= MaxInflight
        /\ checkInInput' = value
        /\ avail' = u.avail
        /\ net' = u.net
  /\ alerted' = ""
  /\ UNCHANGED <<store, seq, resp, checkOutInput, modalShown, form>>

\* The user changes the check-out date.
ChangeCheckOut(value) ==
  /\ value # checkOutInput
  /\ events < MaxEvents
  /\ events' = events + 1
  /\ LET u == UpdateAvailability(checkInInput, value, avail, net)
     IN /\ Len(u.net) <= MaxInflight
        /\ checkOutInput' = value
        /\ avail' = u.avail
        /\ net' = u.net
  /\ alerted' = ""
  /\ UNCHANGED <<store, seq, resp, checkInInput, modalShown, form>>

\* The user clicks Reservar on a room's row: openReservationModal.
OpenReservationModal(roomId) ==
  /\ ~modalShown
  /\ events < MaxEvents
  /\ events' = events + 1
  /\ IF \/ ~Truthy(checkInInput) \/ ~Truthy(checkOutInput)
        \/ DateLeq(NewDate(checkOutInput), NewDate(checkInInput))
       THEN /\ alerted' = AlertDates
            /\ UNCHANGED <<modalShown, form>>
       ELSE /\ form' = [roomId |-> roomId, checkIn |-> checkInInput,
                        checkOut |-> checkOutInput]
            /\ modalShown' = TRUE
            /\ alerted' = ""
  /\ UNCHANGED <<store, seq, resp, checkInInput, checkOutInput, avail, net>>

\* closeModal: the modal is hidden and the form reset.
CloseModal ==
  /\ modalShown
  /\ events < MaxEvents
  /\ events' = events + 1
  /\ modalShown' = FALSE
  /\ form' = NoForm
  /\ alerted' = ""
  /\ UNCHANGED <<store, seq, resp, checkInInput, checkOutInput, avail, net>>

\* The user submits the form of the modal: the handler up to its await.
SubmitForm(typedName, typedEmail, typedPhone) ==
  /\ modalShown
  /\ events < MaxEvents
  /\ events' = events + 1
  /\ LET name == Trim(typedName)
         email == Trim(typedEmail)
         phone == Trim(typedPhone)
     IN IF ~Truthy(name) \/ ~Truthy(email) \/ ~Truthy(phone)
          THEN /\ alerted' = AlertFields
               /\ UNCHANGED net
          ELSE /\ Len(net) < MaxInflight
               /\ net' = Append(net,
                                Request("POST", ReservationsPath, NoQuery,
                                        [roomId |-> form.roomId, name |-> name,
                                         email |-> email, phone |-> phone,
                                         checkIn |-> form.checkIn,
                                         checkOut |-> form.checkOut]))
               /\ alerted' = ""
  /\ UNCHANGED <<store, seq, resp, checkInInput, checkOutInput, avail, modalShown, form>>

\* The response to an availability fetch arrives: updateAvailability after
\* its await. response.json() throws on a payload that is not JSON, and
\* reservations.some on one that is not an array.
AvailabilityResponse(i) ==
  /\ net[i].phase = "response"
  /\ net[i].method = "GET"
  /\ avail' = IF net[i].payload = "array" THEN PaintRooms(net[i].rows)
              ELSE [room \in rooms |-> ErrorCell]
  /\ net' = RemoveAt(net, i)
  /\ alerted' = ""
  /\ UNCHANGED <<store, seq, resp, checkInInput, checkOutInput, modalShown, form, events>>

\* The handler without its check of response.ok.
ResponseOkUnchecked(status) == TRUE

\* response.ok: the status is in the range 200-299.
ResponseOk(status) == status >= 200 /\ status <= 299

\* The response to the POST of the form arrives: the submit handler after
\* its await.
ReservationResponse(i) ==
  /\ net[i].phase = "response"
  /\ net[i].method = "POST"
  /\ IF ResponseOk(net[i].status) /\ net[i].payload # "html"
       THEN LET u == UpdateAvailability(checkInInput, checkOutInput, avail,
                                        RemoveAt(net, i))
            IN /\ alerted' = AlertThanks
               /\ modalShown' = FALSE
               /\ form' = NoForm
               /\ avail' = u.avail
               /\ net' = u.net
       ELSE /\ alerted' = AlertFailed
            /\ net' = RemoveAt(net, i)
            /\ UNCHANGED <<modalShown, form, avail>>
  /\ UNCHANGED <<store, seq, resp, checkInInput, checkOutInput, events>>

\* A fetch fails on the network, before or after the server has seen it: the
\* catch block of the function awaiting it runs.
FetchFails(i) ==
  /\ IF net[i].method = "GET"
       THEN /\ avail' = [room \in rooms |-> ErrorCell]
            /\ alerted' = ""
       ELSE /\ alerted' = AlertFailed
            /\ UNCHANGED avail
  /\ net' = RemoveAt(net, i)
  /\ UNCHANGED <<store, seq, resp, checkInInput, checkOutInput, modalShown, form, events>>

----------------------------------------------------------------------------
(* Specifications *)

\* No page is open: only API callers act.
NoPage ==
  /\ checkInInput = Empty /\ checkOutInput = Empty
  /\ avail = [room \in rooms |-> EmptyCell]
  /\ modalShown = FALSE /\ form = NoForm /\ alerted = "" /\ events = 0
  /\ net = << >>

\* The rooms page after initRoomsPage: the default dates are tomorrow and the
\* day after, the table is rendered and the first updateAvailability awaits.
PageLoaded ==
  \E tomorrow \in 1..(MaxDay - 1) :
    /\ checkInInput = DateOnly(tomorrow)
    /\ checkOutInput = DateOnly(tomorrow + 1)
    /\ LET u == UpdateAvailability(DateOnly(tomorrow), DateOnly(tomorrow + 1),
                                   [room \in rooms |-> EmptyCell], << >>)
       IN avail = u.avail /\ net = u.net
    /\ modalShown = FALSE /\ form = NoForm /\ alerted = "" /\ events = 0

InitServer == store = << >> /\ seq = 0 /\ resp = NoResp

InitApi == InitServer /\ NoPage

NextApi ==
  \/ \E query \in Queries : ApiGet(query)
  \/ \E body \in Bodies : ApiPost(body)
  \/ ApiDone

SpecApi == InitApi /\ [][NextApi]_vars

InitBrowser == InitServer /\ PageLoaded

NextBrowser ==
  \/ \E value \in FieldValues : ChangeCheckIn(value)
  \/ \E value \in FieldValues : ChangeCheckOut(value)
  \/ OpenReservationModal(FirstRoom)
  \/ CloseModal
  \/ \E n, e, p \in TypedTexts : SubmitForm(n, e, p)
  \/ \E i \in 1..Len(net) : ServerHandle(i)
  \/ \E i \in 1..Len(net) : AvailabilityResponse(i)
  \/ \E i \in 1..Len(net) : ReservationResponse(i)
  \/ \E i \in 1..Len(net) : FetchFails(i)

SpecBrowser == InitBrowser /\ [][NextBrowser]_vars

----------------------------------------------------------------------------
(* The claims *)

\* The day a date text of either format names.
DayOf(text) ==
  CHOOSE d \in 1..31 : text = DateOnly(d) \/ text = ToISOString(ValidDate(d))

IsDateOnly(text) == \E d \in Days : text = DateOnly(d)
IsIso(text) == \E d \in Days : text = ToISOString(ValidDate(d))

\* s < t in the store's order of texts.
TextLt(s, t) == TextLeq(s, t) /\ s # t

\* Row r is among the rows of the response the API caller holds.
Returned(r) == \E k \in 1..Len(resp.rows) : resp.rows[k] = r

C2_RoundTripInRealFormats ==
  (/\ resp.op = "GET" /\ resp.status = 200
   /\ IsIso(resp.query.checkIn) /\ IsIso(resp.query.checkOut)
   /\ DayOf(resp.query.checkIn) < DayOf(resp.query.checkOut)) =>
    \A j \in 1..Len(store) :
      (/\ IsDateOnly(store[j].checkIn) /\ IsDateOnly(store[j].checkOut)
       /\ DayOf(store[j].checkIn) < DayOf(store[j].checkOut)) =>
        (Returned(store[j]) <=>
           /\ DayOf(store[j].checkIn) < DayOf(resp.query.checkOut)
           /\ DayOf(resp.query.checkIn) < DayOf(store[j].checkOut))

\* C4: a POST /api/reservations whose body lacks a required field is answered
\* 400 with an error payload and leaves the table as it was.
C4_IncompletePostRejected ==
  [][(resp.op = "none" /\ resp'.op = "POST" /\ MissingFields(resp'.body) # {}) =>
       /\ resp'.status = 400
       /\ resp'.error # ""
       /\ store' = store
       /\ seq' = seq]_vars

\* A POST lacking only email was answered 400 while the table held a row.
C4_Witness ==
  /\ resp.op = "POST" /\ MissingFields(resp.body) = {"email"}
  /\ resp.status = 400
  /\ Len(store) = 1

IdsDistinct(table) ==
  \A j1, j2 \in 1..Len(table) : j1 # j2 => table[j1].id # table[j2].id

\* C5: every successful POST appends exactly one row whose id is greater than
\* every id already stored and returns that id; every step leaves the rows
\* already stored as they were, a step that is not a successful POST adds
\* none, and the stored ids stay pairwise distinct.
C5_IdsAscendRowsKept ==
  [][/\ Len(store) <= Len(store')
     /\ SubSeq(store', 1, Len(store)) = store
     /\ IF resp.op = "none" /\ resp'.op = "POST" /\ resp'.status = 200
          THEN /\ Len(store') = Len(store) + 1
               /\ \A j \in 1..Len(store) : store[j].id < store'[Len(store')].id
               /\ resp'.id = store'[Len(store')].id
          ELSE store' = store
     /\ IdsDistinct(store')]_vars

\* The second successful POST returned id 2.
C5_Witness ==
  /\ resp.op = "POST" /\ resp.status = 200 /\ resp.id = 2
  /\ Len(store) = 2 /\ store[1].id = 1 /\ store[2].id = 2

\* Rows r1 and r2 book the same room for overlapping half-open ranges of days.
DoubleBooked(r1, r2) ==
  /\ r1.roomId = r2.roomId
  /\ DayOf(r1.checkIn) < DayOf(r1.checkOut)
  /\ DayOf(r2.checkIn) < DayOf(r2.checkOut)
  /\ DayOf(r1.checkIn) < DayOf(r2.checkOut)
  /\ DayOf(r2.checkIn) < DayOf(r1.checkOut)

\* C6: creation performs no overlap check: whatever the table holds, a POST
\* with a complete body is answered 200 unless the storage fails, its row is
\* stored under an id no other row has, also when it overlaps a stored
\* reservation of the same room.
C6_NoOverlapCheckOnInsert ==
  (resp.op = "POST" /\ MissingFields(resp.body) = {} /\ resp.status # 500) =>
    /\ resp.status = 200
    /\ store # << >>
    /\ LET new == store[Len(store)]
       IN /\ new.id = resp.id
          /\ new.roomId = resp.body.roomId
          /\ new.checkIn = resp.body.checkIn
          /\ new.checkOut = resp.body.checkOut
          /\ \A j \in 1..(Len(store) - 1) : store[j].id # new.id

\* Two overlapping reservations of one room are stored, the second one just
\* answered 200.
C6_Witness ==
  /\ resp.op = "POST" /\ resp.status = 200
  /\ Len(store) = 2
  /\ DoubleBooked(store[1], store[2])
  /\ store[1].id # store[2].id

\* C8: every stored reservation has non-empty name, email and phone and a
\* checkOut strictly after its checkIn.
C8_StoredReservationsWellFormed ==
  \A j \in 1..Len(store) :
    /\ store[j].name # Empty /\ store[j].email # Empty /\ store[j].phone # Empty
    /\ DayOf(store[j].checkIn) < DayOf(store[j].checkOut)

\* Stored reservation r and the range of query q (ISO timestamps) overlap as
\* half-open ranges of days.
OverlapsQuery(r, q) ==
  /\ DayOf(r.checkIn) < DayOf(q.checkOut)
  /\ DayOf(q.checkIn) < DayOf(r.checkOut)

\* The cells show the availability of every room for the range of query q.
ShowsAvailability(cells, q) ==
  \A room \in rooms :
    /\ cells[room] \in {AvailableCell, UnavailableCell}
    /\ cells[room] = UnavailableCell <=>
         \E j \in 1..Len(store) : store[j].roomId = room /\ OverlapsQuery(store[j], q)

\* C3: when the answer of the backend to an availability refresh arrives and
\* the store did not fail, every room is painted available or unavailable,
\* never Error, and unavailable exactly when a stored reservation overlapping
\* the queried range has the room's id.
C3_RefreshPaintsAvailability ==
  [][\A i \in 1..Len(net) :
       (AvailabilityResponse(i) /\ net[i].status # 500) =>
         ShowsAvailability(avail', net[i].query)]_vars

\* The values of the two date fields are not a valid range: one is empty, or
\* check-out is not after check-in.
InvalidRange(ci, co) ==
  \/ ci = Empty
  \/ co = Empty
  \/ DayOf(co) <= DayOf(ci)

\* The availability queries that are in flight to the server.
AvailabilityQueries(fetches) ==
  {k \in 1..Len(fetches) : fetches[k].method = "GET" /\ fetches[k].phase = "request"}

\* updateAvailability runs in this step: a date field changes, or the POST of
\* the form has succeeded.
RefreshRuns ==
  \/ \E value \in FieldValues : ChangeCheckIn(value)
  \/ \E value \in FieldValues : ChangeCheckOut(value)
  \/ \E i \in 1..Len(net) : ReservationResponse(i) /\ alerted' = AlertThanks

\* C7: whenever an availability refresh runs with a range that is not valid
\* (a date field empty, check-out equal to or before check-in), no query is
\* sent and every room is painted 'Fechas no validas'.
C7_InvalidRangePaintsInvalid ==
  [][(RefreshRuns /\ InvalidRange(checkInInput', checkOutInput')) =>
       /\ Cardinality(AvailabilityQueries(net')) = Cardinality(AvailabilityQueries(net))
       /\ \A room \in rooms : avail'[room] = InvalidCell]_vars

\* The refresh a successful submission starts: for a valid range of the date
\* fields the query for it is sent, for check-out not after check-in the rooms
\* are painted invalid.
RefreshStarted(i) ==
  IF checkInInput = Empty \/ checkOutInput = Empty
    THEN net' = RemoveAt(net, i)
    ELSE IF DayOf(checkOutInput) <= DayOf(checkInInput)
      THEN /\ net' = RemoveAt(net, i)
           /\ \A room \in rooms : avail'[room] = InvalidCell
      ELSE /\ Len(net') = Len(net)
           /\ SubSeq(net', 1, Len(net) - 1) = RemoveAt(net, i)
           /\ LET sent == net'[Len(net')]
              IN /\ sent.phase = "request" /\ sent.method = "GET"
                 /\ sent.path = AvailabilityPath
                 /\ DayOf(sent.query.checkIn) = DayOf(checkInInput)
                 /\ DayOf(sent.query.checkOut) = DayOf(checkOutInput)

\* C9: submitting the form of the modal with name, email or phone empty sends
\* no request and leaves the modal open; when the POST succeeds the modal is
\* closed and an availability refresh is started; when it fails (a response
\* that is not 2xx, or a network error) an alert is raised, the handler leaves
\* the modal as it is and starts no refresh.
C9_SubmissionOutcomes ==
  [][/\ \A n, e, p \in TypedTexts :
          (SubmitForm(n, e, p) /\ {n, e, p} \cap {Empty, Blank} # {}) =>
            /\ net' = net
            /\ modalShown'
            /\ alerted' = AlertFields
     /\ \A i \in 1..Len(net) :
          /\ (ReservationResponse(i) /\ net[i].status \in 200..299) =>
               /\ ~modalShown'
               /\ alerted' = AlertThanks
               /\ RefreshStarted(i)
          /\ (\/ ReservationResponse(i) /\ net[i].status \notin 200..299
              \/ FetchFails(i) /\ net[i].method = "POST") =>
               /\ alerted' = AlertFailed
               /\ modalShown' = modalShown
               /\ avail' = avail
               /\ net' = RemoveAt(net, i)]_vars

\* The POST has succeeded: the modal is closed, the reservation is stored and
\* the query of the refresh is in flight.
C9_Witness ==
  /\ alerted = AlertThanks
  /\ ~modalShown
  /\ Len(store) = 1
  /\ AvailabilityQueries(net) # {}

\* The POST has failed and the modal is still open.
C9_WitnessFailed == alerted = AlertFailed /\ modalShown

\* The form was submitted with an empty field.
C9_WitnessEmpty == alerted = AlertFields /\ modalShown /\ net = << >>

\* The query updateAvailability would send for the dates now in the fields.
SelectedQuery ==
  IF InvalidRange(checkInInput, checkOutInput)
    THEN NoQuery
    ELSE [checkIn |-> ToISOString(ValidDate(DayOf(checkInInput))),
          checkOut |-> ToISOString(ValidDate(DayOf(checkOutInput)))]

\* C10: refreshes are neither cancelled nor sequenced: when the last answer
\* to arrive, with every other fetch settled, belongs to a refresh for an
\* earlier range than the valid one now selected, the table ends showing the
\* availability computed for that earlier range.
C10_StaleResponseShowsItsAvailability ==
  [][\A i \in 1..Len(net) :
       (/\ AvailabilityResponse(i)
        /\ net[i].status # 500
        /\ net' = << >>
        /\ ~InvalidRange(checkInInput, checkOutInput)
        /\ net[i].query # SelectedQuery) =>
         ShowsAvailability(avail', net[i].query)]_vars

====
